---- MODULE Spec2Model ----
(***************************************************************************)
(* Basin-of-attraction sampler of VISolver: the worker LE and the sampling *)
(* loop MCT of VISolver/BoA/MCGrid_Enhanced 2.py.                          *)
(*                                                                         *)
(* Numbers.  The program computes with non-negative IEEE doubles.  Here an *)
(* accumulator sum, a multiplier and avg are exact fractions <<n, d>> in   *)
(* lowest terms, and a weight of the Probability Field is a binary         *)
(* fixed-point number <<n, Scale>>, rounded to the nearest after every     *)
(* operation as a double is; both kinds have the two special values the    *)
(* program's arithmetic can produce, <<1, 0>> (inf) and <<0, 0>> (nan).    *)
(* Points are integer vectors counted in units of 1/Res of a cell width    *)
(* from the lower corner of the grid.  Signature components are integers   *)
(* counted in units of 2*ln(2), so that exp(-c*tk/T) is the exact fraction *)
(* 1/4^(c*tk/T).                                                           *)
(***************************************************************************)
EXTENDS Integers, Sequences, FiniteSets, TLC

VARIABLES
    shape,              \* tuple(grid[:,2]): cells per dimension
    sim,                \* the Simulator: start Cell Id -> trajectory record
    parallel,           \* MCT's flag after lines 90-93
    limit,              \* iteration limit
    pc,                 \* position of MCT
    p,                  \* Probability Field: Cell Id -> weight
    ref,                \* Equivalence Registry: sequence of reference signatures
    data,               \* recorded class of every cell sampled so far
    B_pairs,            \* cumulative boundary-pair count
    bndry_ids_master,   \* boundary Cell Ids found so far
    starts,             \* Cell Ids drawn so far
    i,                  \* iteration counter
    avg,                \* running convergence statistic (a fraction)
    center_ids,         \* this iteration's draw
    wstate,             \* per invocation of LE: "idle", "ready" (submitted),
                        \* "running", "done" (returned)
    wres,               \* per invocation of LE: its local result
    groups,             \* the gathered list of worker results
    bnd_ind_sum_master, \* round-level Boundary Accumulator
    bndry_ids_all,      \* boundary Cell Ids of this iteration
    g,                  \* index of the next group in the loop MCT is in
    hist,               \* history: what has happened, for stating the claims
    probe               \* inputs and outputs of the Grid Index functions on trial

vars == <<shape, sim, parallel, limit, pc, p, ref, data, B_pairs,
          bndry_ids_master, starts, i, avg, center_ids, wstate, wres, groups,
          bnd_ind_sum_master, bndry_ids_all, g, hist, probe>>

-----------------------------------------------------------------------------
(* Bounds of the model *)

\* largest iteration limit given to MCT
MaxLimit == 2
\* fraction bits of a weight
FracBits == 12

-----------------------------------------------------------------------------
(* Fractions with inf and nan *)

NaN == <<0, 0>>
Inf == <<1, 0>>
Zero == <<0, 1>>
One == <<1, 1>>

IsNaN(x) == x[1] = 0 /\ x[2] = 0
IsInf(x) == x[1] # 0 /\ x[2] = 0
IsFinite(x) == x[2] # 0

RECURSIVE Gcd(_, _)
Gcd(a, b) == IF b = 0 THEN a ELSE Gcd(b, a % b)

\* <<n, d>> in lowest terms; n/0 is inf for n > 0 and nan for n = 0
RNorm(x) ==
    IF x[2] = 0 THEN (IF x[1] = 0 THEN NaN ELSE Inf)
    ELSE LET k == Gcd(x[1], x[2]) IN <<x[1] \div k, x[2] \div k>>

\* x * y, the factors cancelled crosswise first; x / y is x * (1/y)
RMul(x, y) ==
    IF x[2] = 0 \/ y[2] = 0 THEN RNorm(<<x[1] * y[1], 0>>)
    ELSE LET a == RNorm(<<x[1], y[2]>>)
             b == RNorm(<<y[1], x[2]>>)
         IN <<a[1] * b[1], a[2] * b[2]>>
RDiv(x, y) ==
    IF IsNaN(y) THEN NaN
    ELSE IF IsInf(y) THEN (IF IsFinite(x) THEN Zero ELSE NaN)
    ELSE IF y[1] = 0 THEN RNorm(<<x[1], 0>>)
    ELSE RMul(x, <<y[2], y[1]>>)
RAdd(x, y) ==
    IF IsNaN(x) \/ IsNaN(y) THEN NaN
    ELSE IF IsInf(x) \/ IsInf(y) THEN Inf
    ELSE LET k == Gcd(x[2], y[2])
         IN RNorm(<<x[1] * (y[2] \div k) + y[1] * (x[2] \div k), x[2] * (y[2] \div k)>>)
\* x > y as the program's floats compare: every comparison with nan is false
RGt(x, y) ==
    IF IsNaN(x) \/ IsNaN(y) THEN FALSE
    ELSE IF IsInf(x) THEN ~IsInf(y)
    ELSE IF IsInf(y) THEN FALSE
    ELSE x[1] * y[2] > y[1] * x[2]
RInt(n) == <<n, 1>>

RECURSIVE Pow(_, _)
Pow(b, e) == IF e = 0 THEN 1 ELSE b * Pow(b, e - 1)

Abs(n) == IF n < 0 THEN -n ELSE n

-----------------------------------------------------------------------------
(* Weights: fixed-point numbers with inf and nan *)

Scale == Pow(2, FracBits)

\* a / b rounded to the nearest integer, for a >= 0 and b > 0
RoundDiv(a, b) == (2 * a + b) \div (2 * b)

\* the weight nearest to the fraction n / d
Weight(n, d) == <<RoundDiv(n * Scale, d), Scale>>

\* weight x times the fraction m
FMul(x, m) ==
    IF IsNaN(x) \/ IsNaN(m) THEN NaN
    ELSE IF IsInf(x) THEN (IF m[1] = 0 THEN NaN ELSE Inf)
    ELSE IF IsInf(m) THEN (IF x[1] = 0 THEN NaN ELSE Inf)
    ELSE <<RoundDiv(x[1] * m[1], m[2]), Scale>>

\* weight x divided by the weight s
FDiv(x, s) ==
    IF IsNaN(x) \/ IsNaN(s) THEN NaN
    ELSE IF IsInf(x) THEN (IF IsInf(s) THEN NaN ELSE Inf)
    ELSE IF IsInf(s) THEN <<0, Scale>>
    ELSE IF s[1] = 0 THEN (IF x[1] = 0 THEN NaN ELSE Inf)
    ELSE <<RoundDiv(x[1] * Scale, s[1]), Scale>>

\* the sum of the weights f[c], c in S
RECURSIVE FSum(_, _)
FSum(f, S) ==
    IF S = {} THEN <<0, Scale>>
    ELSE LET c == CHOOSE x \in S : TRUE
             rest == FSum(f, S \ {c})
         IN IF IsNaN(f[c]) \/ IsNaN(rest) THEN NaN
            ELSE IF IsInf(f[c]) \/ IsInf(rest) THEN Inf
            ELSE <<f[c][1] + rest[1], Scale>>

RECURSIVE SeqSum(_)
SeqSum(s) == IF s = <<>> THEN 0 ELSE s[1] + SeqSum(Tail(s))

RECURSIVE SeqProd(_)
SeqProd(s) == IF s = <<>> THEN 1 ELSE s[1] * SeqProd(Tail(s))

-----------------------------------------------------------------------------
(* Inputs of MCT (line 76-77) used by the model *)

\* half a cell width, in the model's length unit
HalfCell == 2
\* the model's length unit: one cell width (grid[:,3]) is Res units
Res == 2 * HalfCell

\* batch size: centers drawn per iteration
L == 2
\* neighborNormOrder
q == 2
\* neighborRadius 1.1, in cell widths (Dinv = diag(1/grid[:,3]))
r == <<11, 10>>
\* convergenceThreshold .01
AVG == <<1, 100>>
\* growthFactor and shrinkFactor given to MCT: any eta_1 > 1 and eta_2 <= 1
eta_1 == <<2, 1>>
eta_2 == <<1, 2>>
\* clusterTolerance, in signature units
eps == 1
\* pool size
nodes == 8

-----------------------------------------------------------------------------
(* Grid Index: VISolver.BoA.Utilities, imported at lines 5-7 *)

Dim(sh) == Len(sh)
NumCells(sh) == SeqProd(sh)
Ids(sh) == 0 .. (NumCells(sh) - 1)

ValidInd(ind, sh) ==
    /\ Len(ind) = Len(sh)
    /\ \A d \in 1 .. Len(sh) : ind[d] >= 0 /\ ind[d] < sh[d]

\* product of the counts of the dimensions after d: the row-major stride of d
Stride(sh, d) == SeqProd(SubSeq(sh, d + 1, Len(sh)))

\* cellIndexToId: the row-major mixed-radix encoding; OutOfRange is ok = FALSE
ind2int(ind, sh) ==
    IF ValidInd(ind, sh)
    THEN [ok |-> TRUE,
          val |-> SeqSum([d \in 1 .. Len(sh) |-> ind[d] * Stride(sh, d)])]
    ELSE [ok |-> FALSE, val |-> 0]

\* idToCellIndex: the digits of the id; OutOfRange is ok = FALSE
int2ind(id, sh) ==
    IF id >= 0 /\ id < NumCells(sh)
    THEN [ok |-> TRUE,
          val |-> [d \in 1 .. Len(sh) |-> (id \div Stride(sh, d)) % sh[d]]]
    ELSE [ok |-> FALSE, val |-> <<>>]

AllInds(sh) == {int2ind(id, sh).val : id \in Ids(sh)}

\* cellIndexToPoint: the coordinate of the index; with checkBnds an index on
\* the edge of the domain is pulled inward by half a cell width
ind2pt(ind, sh, checkBnds) ==
    [d \in 1 .. Len(sh) |->
        IF checkBnds /\ ind[d] = 0 THEN HalfCell
        ELSE IF checkBnds /\ ind[d] = sh[d] - 1 THEN Res * ind[d] - HalfCell
        ELSE Res * ind[d]]

\* all index tuples whose component d is lo[d] or lo[d] + 1
RECURSIVE Corners(_)
Corners(lo) ==
    IF lo = <<>> THEN {<<>>}
    ELSE {<<c>> \o rest : c \in {lo[1], lo[1] + 1}, rest \in Corners(Tail(lo))}

\* pointToSurroundingCellIndices: the 2^d corners of the cell holding the point
pt2inds(pt, sh) == Corners([d \in 1 .. Len(pt) |-> pt[d] \div Res])

\* ||Dinv (a - b)||_q ^ q in cell widths, for index tuples a and b
IndDistQ(a, b) == SeqSum([d \in 1 .. Len(a) |-> Pow(Abs(a[d] - b[d]), q)])

\* the ids in a set of ids as an ascending sequence
RECURSIVE SortedSeq(_)
SortedSeq(S) ==
    IF S = {} THEN <<>>
    ELSE LET m == CHOOSE x \in S : \A y \in S : x <= y
         IN <<m>> \o SortedSeq(S \ {m})

\* neighbors: the grid indices within the ball of order q and radius r around
\* the center, the center left out, in the order of their ids
neighbors(center_ind, sh) ==
    LET sel == {c \in AllInds(sh) :
                    /\ c # center_ind
                    /\ IndDistQ(center_ind, c) * Pow(r[2], q) <= Pow(r[1], q)}
        byId == SortedSeq({ind2int(c, sh).val : c \in sel})
    IN [k \in 1 .. Len(byId) |-> int2ind(byId[k], sh).val]

-----------------------------------------------------------------------------
(* The Simulator (sim, an input of MCT): what one call can return *)

\* a trajectory record: the final Signature le (one component, finite or not),
\* the recorded states as displacements from the starting point
\* (PermStorage['Data']) and the step sizes (PermStorage['Step'])
Rec(v, fin, path, step) == [le |-> [v |-> v, fin |-> fin], path |-> path, step |-> step]

\* converges at once: signature 0, two recorded states in the starting cell
RecStay == Rec(0, TRUE, <<<<0, 0>>, <<0, 0>>>>, <<1, 1>>)
\* moves one cell width along the first axis, signature 2
RecMove == Rec(2, TRUE, <<<<0, 0>>, <<Res, 0>>>>, <<1, 1>>)
\* stops after the first recorded state: total elapsed time T = 0
RecSingle == Rec(0, TRUE, <<<<0, 0>>>>, <<1>>)
\* does not converge: a non-finite Signature
RecInf == Rec(0, FALSE, <<<<0, 0>>, <<0, 0>>>>, <<1, 1>>)

Records == {RecStay, RecMove, RecSingle, RecInf}

-----------------------------------------------------------------------------
(* The Trajectory Worker LE, lines 10-73 *)

\* a recorded state: the starting point displaced along the leading axes
StateAt(start, disp) ==
    [d \in 1 .. Len(start) |-> start[d] + (IF d <= Len(disp) THEN disp[d] ELSE 0)]

\* line 38: c = np.max(np.abs(le))
MaxAbs(le) == IF le.fin THEN RInt(Abs(le.v)) ELSE Inf

\* line 39: t = np.cumsum([0]+Step[:-1]); entry k (from 1)
CumTime(step, k) == SeqSum(SubSeq(step, 1, k - 1))

\* line 71: np.exp(-c*tk/T), c in units of 2*ln(2)
Decay(c, tk, T) ==
    LET x == RDiv(RMul(c, RInt(tk)), RInt(T))
    IN IF IsNaN(x) THEN NaN
       ELSE IF IsInf(x) THEN Zero
       ELSE <<1, Pow(2, (2 * x[1]) \div x[2])>>

\* lines 45, 57: the grid point of a cube corner
CornerPt(ind) == [d \in 1 .. Len(ind) |-> Res * ind[d]]

\* lines 52, 58: squared distance of the point from a corner
DistSq(pt, ind) ==
    SeqSum([d \in 1 .. Len(pt) |-> (pt[d] - Res * ind[d]) * (pt[d] - Res * ind[d])])

\* line 23: ddiag = ||grid[:,3]||, squared
DiagSq(sh) == Len(sh) * Res * Res

\* a monitoring test that looks at the lower bounds only: rejected by C24
InBnds_lower_only(ind, sh) ==
    \A d \in 1 .. Len(sh) : Res * ind[d] >= 0

\* lines 61-63: the corner lies within the monitoring rectangle [lo, hi]
InBnds(ind, sh) ==
    \A d \in 1 .. Len(sh) : Res * ind[d] >= 0 /\ Res * ind[d] <= Res * (sh[d] - 1)

\* lines 55-58: the cube tracked after seeing pt
NextCube(cube, pt, sh) ==
    IF \E c \in cube : DistSq(pt, c) > DiagSq(sh) THEN pt2inds(pt, sh) ELSE cube

\* lines 69-72: one accumulation into the entry of key
AccAdd(acc, key, term, dt) ==
    LET old == IF key \in DOMAIN acc THEN acc[key] ELSE <<Zero, Zero>>
    IN <<RAdd(old[1], term), RAdd(old[2], RInt(dt))>>

\* lines 67-72 for all corners of the cube that are in bounds (the corners
\* are distinct keys, so each entry is accumulated into once)
AccCorners(acc, keys, term, dt) ==
    [k \in (DOMAIN acc) \cup keys |->
        IF k \in keys THEN AccAdd(acc, k, term, dt) ELSE acc[k]]

\* lines 48-72: the walk from recorded state k on
RECURSIVE Walk(_, _, _, _, _, _)
Walk(k, cube, acc, rec, start, sh) ==
    IF k > Len(rec.path) THEN acc
    ELSE LET pt == StateAt(start, rec.path[k])
             T == CumTime(rec.step, Len(rec.step))
             tk == CumTime(rec.step, k)
             dt == rec.step[k]
             cube2 == NextCube(cube, pt, sh)
             term == RMul(Decay(MaxAbs(rec.le), tk, T), RInt(dt))
             keys == {c \in cube2 : InBnds(c, sh)}
         IN Walk(k + 1, cube2, AccCorners(acc, keys, term, dt), rec, start, sh)

\* lines 42-72 for one trajectory
Trajectory(acc, rec, start, sh) ==
    LET pt0 == StateAt(start, rec.path[1])
    IN Walk(1, pt2inds(pt0, sh), acc, rec, start, sh)

\* lines 29-72: the loop over the group's starting points, from point n on
RECURSIVE GroupAcc(_, _, _, _, _)
GroupAcc(n, acc, group_inds, simf, sh) ==
    IF n > Len(group_inds) THEN acc
    ELSE LET ind == group_inds[n]
             rec == simf[ind2int(ind, sh).val]
         IN GroupAcc(n + 1, Trajectory(acc, rec, ind2pt(ind, sh, TRUE), sh),
                     group_inds, simf, sh)

EmptyAcc == [k \in {} |-> <<Zero, Zero>>]

\* LE with the center appended after its neighbors: rejected by C8
LE_center_last(center_ind, simf, sh) ==
    LET group_inds == neighbors(center_ind, sh) \o <<center_ind>>
        group_ids == [n \in 1 .. Len(group_inds) |-> ind2int(group_inds[n], sh).val]
        recs == [n \in 1 .. Len(group_inds) |-> simf[group_ids[n]]]
    IN [ids |-> group_ids,
        les |-> [n \in 1 .. Len(group_inds) |-> recs[n].le],
        endpts |-> [n \in 1 .. Len(group_inds) |->
                       StateAt(ind2pt(group_inds[n], sh, TRUE),
                               recs[n].path[Len(recs[n].path)])],
        bnd_ind_sum |-> GroupAcc(1, EmptyAcc, group_inds, simf, sh)]

\* LE with its signatures listed from the last group point to the first:
\* rejected by C26
LE_les_reversed(center_ind, simf, sh) ==
    LET group_inds == <<center_ind>> \o neighbors(center_ind, sh)
        group_ids == [n \in 1 .. Len(group_inds) |-> ind2int(group_inds[n], sh).val]
        recs == [n \in 1 .. Len(group_inds) |-> simf[group_ids[n]]]
    IN [ids |-> group_ids,
        les |-> [n \in 1 .. Len(group_inds) |-> recs[Len(group_inds) + 1 - n].le],
        endpts |-> [n \in 1 .. Len(group_inds) |->
                       StateAt(ind2pt(group_inds[n], sh, TRUE),
                               recs[n].path[Len(recs[n].path)])],
        bnd_ind_sum |-> GroupAcc(1, EmptyAcc, group_inds, simf, sh)]

\* LE(x): [group_ids, les, endpts, bnd_ind_sum]
LE(center_ind, simf, sh) ==
    LET group_inds == <<center_ind>> \o neighbors(center_ind, sh)
        group_ids == [n \in 1 .. Len(group_inds) |-> ind2int(group_inds[n], sh).val]
        recs == [n \in 1 .. Len(group_inds) |-> simf[group_ids[n]]]
    IN [ids |-> group_ids,
        les |-> [n \in 1 .. Len(group_inds) |-> recs[n].le],
        endpts |-> [n \in 1 .. Len(group_inds) |->
                       StateAt(ind2pt(group_inds[n], sh, TRUE),
                               recs[n].path[Len(recs[n].path)])],
        bnd_ind_sum |-> GroupAcc(1, EmptyAcc, group_inds, simf, sh)]

-----------------------------------------------------------------------------
(* Equivalence Registry: update_LERef and adjustLEs2Ref of                  *)
(* VISolver.BoA.Utilities, called at lines 127 and 132                     *)

\* a comparison that takes two signatures exactly eps apart for different:
\* rejected by C22
Match_strict(a, b) ==
    IF a.fin /\ b.fin THEN Abs(a.v - b.v) < eps ELSE a.fin = b.fin

\* the tolerance comparison of two signatures; a non-finite signature is a
\* sentinel that matches only another non-finite signature
Match(a, b) ==
    IF a.fin /\ b.fin THEN Abs(a.v - b.v) <= eps ELSE a.fin = b.fin

\* index of the first reference that matches le, 0 when none does
FirstMatch(refs, le) ==
    IF \E n \in 1 .. Len(refs) : Match(refs[n], le)
    THEN CHOOSE n \in 1 .. Len(refs) :
            /\ Match(refs[n], le)
            /\ \A m \in 1 .. (n - 1) : ~Match(refs[m], le)
    ELSE 0

\* a classify that appends the signature even when a reference matches it:
\* rejected by C11
classify_append(refs, le) == Append(refs, le)

\* classify: the class index returned for le, counted from 1
classIndex(refs, le) ==
    IF FirstMatch(refs, le) = 0 THEN Len(refs) + 1 ELSE FirstMatch(refs, le)

\* classify: the registry after classifying le
classify(refs, le) == IF FirstMatch(refs, le) = 0 THEN Append(refs, le) ELSE refs

\* update_LERef(ref, les, ...): classify every signature of the group
RECURSIVE update_LERef(_, _)
update_LERef(refs, les) ==
    IF les = <<>> THEN refs
    ELSE update_LERef(classify(refs, les[1]), Tail(les))

\* an alignment that leaves every signature as it was, the result of line 132
\* lost: rejected by C23
adjustLEs2Ref_unaligned(refs, les) == les

\* adjustLEs2Ref(ref, les): every signature replaced, in place, by the
\* reference it is attributed to
adjustLEs2Ref(refs, les) ==
    [n \in 1 .. Len(les) |->
        IF FirstMatch(refs, les[n]) = 0 THEN les[n]
        ELSE refs[FirstMatch(refs, les[n])]]

-----------------------------------------------------------------------------
(* Probability Field: update_Prob_Data of VISolver.BoA.Utilities, called    *)
(* at line 138                                                             *)

SeqRange(s) == {s[n] : n \in 1 .. Len(s)}

\* ids of the grid neighbors of cell id
NeighborIds(id, sh) ==
    {ind2int(n, sh).val : n \in SeqRange(neighbors(int2ind(id, sh).val, sh))}

\* the data map after recording the group's classes
Recorded(dat, ids, les) ==
    [c \in (DOMAIN dat) \cup SeqRange(ids) |->
        IF \E n \in 1 .. Len(ids) : ids[n] = c
        THEN les[CHOOSE n \in 1 .. Len(ids) : ids[n] = c]
        ELSE dat[c]]

\* the recorded neighbors of cell a whose class differs from a's
Disagreeing(a, dat, sh) ==
    {b \in NeighborIds(a, sh) \cap DOMAIN dat : ~Match(dat[a], dat[b])}

\* an update that counts a disagreeing pair once from each of its two cells:
\* rejected by C12
update_Prob_Data_ordered(ids, les, pr, dat, sh) ==
    LET dat2 == Recorded(dat, ids, les)
        cells == SeqRange(ids)
        bcells == {a \in cells : Disagreeing(a, dat2, sh) # {}}
        grown == bcells \cup UNION {Disagreeing(a, dat2, sh) : a \in cells}
        bpairs == UNION {{<<a, b>> : b \in Disagreeing(a, dat2, sh)} : a \in cells}
    IN [p |-> [c \in DOMAIN pr |->
                  IF c \in grown THEN FMul(pr[c], eta_1)
                  ELSE IF c \in cells THEN FMul(pr[c], eta_2)
                  ELSE pr[c]],
        data |-> dat2,
        b_pairs |-> Cardinality(bpairs),
        bndry_ids |-> grown]

\* an update that grows the boundary cells of the group only, leaving their
\* disagreeing neighbors outside the group as they were: rejected by C19
update_Prob_Data_group_only(ids, les, pr, dat, sh) ==
    LET dat2 == Recorded(dat, ids, les)
        cells == SeqRange(ids)
        bcells == {a \in cells : Disagreeing(a, dat2, sh) # {}}
        bpairs == UNION {{{a, b} : b \in Disagreeing(a, dat2, sh)} : a \in cells}
    IN [p |-> [c \in DOMAIN pr |->
                  IF c \in bcells THEN FMul(pr[c], eta_1)
                  ELSE IF c \in cells THEN FMul(pr[c], eta_2)
                  ELSE pr[c]],
        data |-> dat2,
        b_pairs |-> Cardinality(bpairs),
        bndry_ids |-> bcells \cup UNION {Disagreeing(a, dat2, sh) : a \in cells}]

\* update_Prob_Data(group_ids, ..., group_les, ..., p, eta_1, eta_2, data):
\* [p, data, b_pairs, bndry_ids]
update_Prob_Data(ids, les, pr, dat, sh) ==
    LET dat2 == Recorded(dat, ids, les)
        cells == SeqRange(ids)
        bcells == {a \in cells : Disagreeing(a, dat2, sh) # {}}
        grown == bcells \cup UNION {Disagreeing(a, dat2, sh) : a \in cells}
        bpairs == UNION {{{a, b} : b \in Disagreeing(a, dat2, sh)} : a \in cells}
    IN [p |-> [c \in DOMAIN pr |->
                  IF c \in grown THEN FMul(pr[c], eta_1)
                  ELSE IF c \in cells THEN FMul(pr[c], eta_2)
                  ELSE pr[c]],
        data |-> dat2,
        b_pairs |-> Cardinality(bpairs),
        bndry_ids |-> grown]

-----------------------------------------------------------------------------
(* The Sampling Loop MCT, lines 76-154 *)

Workers == 1 .. L

NoResult == [ids |-> <<>>, les |-> <<>>, endpts |-> <<>>, bnd_ind_sum |-> EmptyAcc]

\* grids given to MCT
Shapes == {<<3>>}
\* simulators given to MCT: those that return the same record everywhere, and
\* those that return RecStay everywhere but from one cell
Sims(sh) ==
    {f \in [Ids(sh) -> Records] :
        \/ \A a, b \in Ids(sh) : f[a] = f[b]
        \/ \E a \in Ids(sh) : \A b \in Ids(sh) \ {a} : f[b] = RecStay}

\* lines 90-93: the pool is used unless nodes <= 1 or not parallel
UsePool(n, par) == ~(n <= 1 \/ ~par)

\* line 81: the uniform distribution
Uniform(sh) == [id \in Ids(sh) |-> Weight(1, NumCells(sh))]

Init ==
    /\ shape \in Shapes
    /\ sim \in Sims(shape)
    /\ \E n \in {1, nodes}, par \in BOOLEAN : parallel = UsePool(n, par)
    /\ limit = MaxLimit
    /\ pc = "while"
    /\ p = Uniform(shape)
    /\ ref = <<>>
    /\ data = [c \in {} |-> [v |-> 0, fin |-> TRUE]]
    /\ B_pairs = 0
    /\ bndry_ids_master = {}
    /\ starts = {}
    /\ i = 0
    /\ avg = Inf
    /\ center_ids = <<>>
    /\ wstate = [w \in Workers |-> "idle"]
    /\ wres = [w \in Workers |-> NoResult]
    /\ groups = <<>>
    /\ bnd_ind_sum_master = EmptyAcc
    /\ bndry_ids_all = {}
    /\ g = 0
    /\ hist = [drawn |-> 0, updated |-> 0, iters |-> 0, bsum |-> 0,
               calls |-> 0, finished |-> <<>>,
               reported |-> {}]
    /\ probe = <<>>

\* the loop condition with its two tests joined by "or": rejected by C2
Continue_either == i < limit \/ RGt(avg, AVG)

\* line 98: the loop condition
Continue == i < limit /\ RGt(avg, AVG)

\* line 98, and line 154 when the condition fails
LoopTest ==
    /\ pc = "while"
    /\ pc' = IF Continue THEN "draw" ELSE "done"
    /\ UNCHANGED <<shape, sim, parallel, limit, p, ref, data, B_pairs,
                   bndry_ids_master, starts, i, avg, center_ids, wstate, wres,
                   groups, bnd_ind_sum_master, bndry_ids_all, g, hist, probe>>

\* np.random.choice refuses a field that holds a nan
Drawable(pr) == \A c \in DOMAIN pr : ~IsNaN(pr[c])

\* a draw that does not record its centers in the seen set: rejected by C21
Draw_unrecorded ==
    /\ pc = "draw"
    /\ IF Drawable(p)
       THEN /\ center_ids' \in [1 .. L -> {c \in DOMAIN p : RGt(p[c], Zero)}]
            /\ starts' = starts
            /\ wstate' = [w \in Workers |-> "ready"]
            /\ hist' = [hist EXCEPT !.drawn = @ + 1, !.calls = 0, !.finished = <<>>]
            /\ pc' = "map"
       ELSE /\ pc' = "raised"
            /\ UNCHANGED <<center_ids, starts, wstate, hist>>
    /\ UNCHANGED <<shape, sim, parallel, limit, p, ref, data, B_pairs,
                   bndry_ids_master, i, avg, wres, groups, bnd_ind_sum_master,
                   bndry_ids_all, g, probe>>

\* lines 102-105: draw L centers with replacement and build the inputs of LE
Draw ==
    /\ pc = "draw"
    /\ IF Drawable(p)
       THEN /\ center_ids' \in [1 .. L -> {c \in DOMAIN p : RGt(p[c], Zero)}]
            /\ starts' = starts \cup SeqRange(center_ids')
            /\ wstate' = [w \in Workers |-> "ready"]
            /\ hist' = [hist EXCEPT !.drawn = @ + 1, !.calls = 0, !.finished = <<>>]
            /\ pc' = "map"
       ELSE /\ pc' = "raised"
            /\ UNCHANGED <<center_ids, starts, wstate, hist>>
    /\ UNCHANGED <<shape, sim, parallel, limit, p, ref, data, B_pairs,
                   bndry_ids_master, i, avg, wres, groups, bnd_ind_sum_master,
                   bndry_ids_all, g, probe>>

\* invocations handed out all at once in either mode, as if to a pool:
\* rejected by C29
MayStart_at_once(w) == TRUE

\* lines 108-111: an invocation may start when the pool runs it, or, without
\* a pool, when every earlier element of the list has returned
MayStart(w) ==
    parallel \/ \A v \in Workers : v < w => wstate[v] = "done"

\* LE is entered for the w-th center
LEStart(w) ==
    /\ wstate[w] = "ready"
    /\ MayStart(w)
    /\ wstate' = [wstate EXCEPT ![w] = "running"]
    /\ hist' = [hist EXCEPT !.calls = @ + 1]
    /\ UNCHANGED <<shape, sim, parallel, limit, pc, p, ref, data, B_pairs,
                   bndry_ids_master, starts, i, avg, center_ids, wres, groups,
                   bnd_ind_sum_master, bndry_ids_all, g, probe>>

\* a worker that classifies its signatures into the shared registry itself:
\* rejected by C6
LEReturn_shared(w) ==
    /\ wstate[w] = "running"
    /\ wres' = [wres EXCEPT ![w] = LE(int2ind(center_ids[w], shape).val, sim, shape)]
    /\ ref' = update_LERef(ref, wres'[w].les)
    /\ wstate' = [wstate EXCEPT ![w] = "done"]
    /\ hist' = [hist EXCEPT !.finished = Append(@, w)]
    /\ UNCHANGED <<shape, sim, parallel, limit, pc, p, data, B_pairs,
                   bndry_ids_master, starts, i, avg, center_ids, groups,
                   bnd_ind_sum_master, bndry_ids_all, g, probe>>

\* LE returns its result for the w-th center
LEReturn(w) ==
    /\ wstate[w] = "running"
    /\ wres' = [wres EXCEPT ![w] = LE(int2ind(center_ids[w], shape).val, sim, shape)]
    /\ wstate' = [wstate EXCEPT ![w] = "done"]
    /\ hist' = [hist EXCEPT !.finished = Append(@, w)]
    /\ UNCHANGED <<shape, sim, parallel, limit, pc, p, ref, data, B_pairs,
                   bndry_ids_master, starts, i, avg, center_ids, groups,
                   bnd_ind_sum_master, bndry_ids_all, g, probe>>

\* LE raises an unexpected fault for the w-th center (nothing in LE catches)
LEFault(w) ==
    /\ pc = "map"
    /\ wstate[w] = "running"
    /\ wstate' = [wstate EXCEPT ![w] = "failed"]
    /\ UNCHANGED <<shape, sim, parallel, limit, pc, p, ref, data, B_pairs,
                   bndry_ids_master, starts, i, avg, center_ids, wres, groups,
                   bnd_ind_sum_master, bndry_ids_all, g, hist, probe>>

\* lines 109/111 raise the fault in MCT, which catches nothing: pool.map once
\* every invocation has finished, the list comprehension at once, the
\* remaining centers never being given to LE
MapRaise ==
    /\ pc = "map"
    /\ \E w \in Workers : wstate[w] = "failed"
    /\ parallel => \A w \in Workers : wstate[w] \in {"done", "failed"}
    /\ wstate' = [w \in Workers |-> IF wstate[w] = "ready" THEN "idle" ELSE wstate[w]]
    /\ pc' = "raised"
    /\ UNCHANGED <<shape, sim, parallel, limit, p, ref, data, B_pairs,
                   bndry_ids_master, starts, i, avg, center_ids, wres, groups,
                   bnd_ind_sum_master, bndry_ids_all, g, hist, probe>>

\* a map that drops the invocations that failed and returns the others:
\* rejected by C15
AllFinished == \A w \in Workers : wstate[w] \in {"done", "failed"}

\* a map that returns as soon as one invocation has: rejected by C4
SomeReturned == \E w \in Workers : wstate[w] = "done"

\* pool.map and the list comprehension return when every invocation has
AllReturned == \A w \in Workers : wstate[w] = "done"

\* results listed in the order of completion (an unordered map): rejected
\* by C5
CompletionOrder == hist.finished

\* the order in which the results are listed: that of the inputs
GatherOrder == [k \in 1 .. L |-> k]

\* lines 109/111 return: groups is bound, line 114 starts the aggregation
Gather ==
    /\ pc = "map"
    /\ AllReturned
    /\ groups' = [k \in 1 .. Len(GatherOrder) |-> wres[GatherOrder[k]]]
    /\ bnd_ind_sum_master' = EmptyAcc
    /\ g' = 1
    /\ pc' = "aggregate"
    /\ UNCHANGED <<shape, sim, parallel, limit, p, ref, data, B_pairs,
                   bndry_ids_master, starts, i, avg, center_ids, wstate, wres,
                   bndry_ids_all, hist, probe>>

\* the orders in which a dictionary with these keys can be iterated
Orders(S) ==
    {o \in [1 .. Cardinality(S) -> S] : \A a \in S : \E k \in DOMAIN o : o[k] = a}

\* a merge that stores the entry over the one already there: rejected by C7
Merge_overwrite(master, key, val) ==
    [k \in (DOMAIN master) \cup {key} |-> IF k = key THEN val ELSE master[k]]

\* lines 118-121: one entry of a worker's dictionary added to the master
Merge(master, key, val) ==
    LET old == IF key \in DOMAIN master THEN master[key] ELSE <<Zero, Zero>>
        new == <<RAdd(old[1], val[1]), RAdd(old[2], val[2])>>
    IN [k \in (DOMAIN master) \cup {key} |-> IF k = key THEN new ELSE master[k]]

\* lines 117-121: the entries of one dictionary merged in the order o
RECURSIVE MergeAll(_, _, _)
MergeAll(master, d, o) ==
    IF o = <<>> THEN master
    ELSE MergeAll(Merge(master, o[1], d[o[1]]), d, Tail(o))

\* lines 115-121 for group g, its dictionary iterated in any order
Aggregate ==
    /\ pc = "aggregate"
    /\ g <= Len(groups)
    /\ \E o \in Orders(DOMAIN groups[g].bnd_ind_sum) :
          bnd_ind_sum_master' = MergeAll(bnd_ind_sum_master, groups[g].bnd_ind_sum, o)
    /\ g' = IF g = Len(groups) THEN 1 ELSE g + 1
    /\ pc' = IF g = Len(groups) THEN "update_ref" ELSE "aggregate"
    /\ UNCHANGED <<shape, sim, parallel, limit, p, ref, data, B_pairs,
                   bndry_ids_master, starts, i, avg, center_ids, wstate, wres,
                   groups, bndry_ids_all, hist, probe>>

\* the registry rebuilt from the group's signatures alone: rejected by C10
UpdateRef_reset ==
    /\ pc = "update_ref"
    /\ g <= Len(groups)
    /\ ref' = update_LERef(<<>>, groups[g].les)
    /\ g' = IF g = Len(groups) THEN 1 ELSE g + 1
    /\ pc' = IF g = Len(groups) THEN "adjust" ELSE "update_ref"
    /\ UNCHANGED <<shape, sim, parallel, limit, p, data, B_pairs,
                   bndry_ids_master, starts, i, avg, center_ids, wstate, wres,
                   groups, bnd_ind_sum_master, bndry_ids_all, hist, probe>>

\* lines 124-127 for group g
UpdateRef ==
    /\ pc = "update_ref"
    /\ g <= Len(groups)
    /\ ref' = update_LERef(ref, groups[g].les)
    /\ g' = IF g = Len(groups) THEN 1 ELSE g + 1
    /\ pc' = IF g = Len(groups) THEN "adjust" ELSE "update_ref"
    /\ UNCHANGED <<shape, sim, parallel, limit, p, data, B_pairs,
                   bndry_ids_master, starts, i, avg, center_ids, wstate, wres,
                   groups, bnd_ind_sum_master, bndry_ids_all, hist, probe>>

\* the probability update entered after the first group is re-attributed,
\* the other groups left as they were: rejected by C27
Adjust_first_only ==
    /\ pc = "adjust"
    /\ g <= Len(groups)
    /\ groups' = [groups EXCEPT ![g].les = adjustLEs2Ref(ref, @)]
    /\ g' = 1
    /\ pc' = "update_prob"
    /\ bndry_ids_all' = {}
    /\ UNCHANGED <<shape, sim, parallel, limit, p, ref, data, B_pairs,
                   bndry_ids_master, starts, i, avg, center_ids, wstate, wres,
                   bnd_ind_sum_master, hist, probe>>

\* lines 130-132 for group g; line 135 when the loop is over
Adjust ==
    /\ pc = "adjust"
    /\ g <= Len(groups)
    /\ groups' = [groups EXCEPT ![g].les = adjustLEs2Ref(ref, @)]
    /\ g' = IF g = Len(groups) THEN 1 ELSE g + 1
    /\ pc' = IF g = Len(groups) THEN "update_prob" ELSE "adjust"
    /\ bndry_ids_all' = IF g = Len(groups) THEN {} ELSE bndry_ids_all
    /\ UNCHANGED <<shape, sim, parallel, limit, p, ref, data, B_pairs,
                   bndry_ids_master, starts, i, avg, center_ids, wstate, wres,
                   bnd_ind_sum_master, hist, probe>>

\* lines 136-143 for group g
UpdateProb ==
    /\ pc = "update_prob"
    /\ g <= Len(groups)
    /\ LET u == update_Prob_Data(groups[g].ids, groups[g].les, p, data, shape)
       IN /\ p' = u.p
          /\ data' = u.data
          /\ B_pairs' = B_pairs + u.b_pairs
          /\ bndry_ids_all' = bndry_ids_all \cup u.bndry_ids
          /\ hist' = [hist EXCEPT !.bsum = @ + u.b_pairs,
                                   !.reported = @ \cup u.bndry_ids]
    /\ g' = IF g = Len(groups) THEN 1 ELSE g + 1
    /\ pc' = IF g = Len(groups) THEN "apply" ELSE "update_prob"
    /\ UNCHANGED <<shape, sim, parallel, limit, ref, bndry_ids_master, starts,
                   i, avg, center_ids, wstate, wres, groups,
                   bnd_ind_sum_master, probe>>

\* an entry applied through an id computed without the range test, every
\* component wrapped into its dimension: rejected by C9
ApplyKey_wrapping(pr, key, val, sh) ==
    LET id == SeqSum([d \in 1 .. Len(sh) |-> (key[d] % sh[d]) * Stride(sh, d)])
    IN [ok |-> TRUE, p |-> [pr EXCEPT ![id] = FMul(@, RDiv(val[1], val[2]))]]

\* an entry applied twice to its weight: rejected by C20
ApplyKey_twice(pr, key, val, sh) ==
    LET id == ind2int(key, sh)
        ratio == RDiv(val[1], val[2])
    IN IF id.ok
       THEN [ok |-> TRUE, p |-> [pr EXCEPT ![id.val] = FMul(FMul(@, ratio), ratio)]]
       ELSE [ok |-> FALSE, p |-> pr]

\* lines 146-147 for one entry: ind2int raises for a key outside the grid
ApplyKey(pr, key, val, sh) ==
    LET id == ind2int(key, sh)
    IN IF id.ok
       THEN [ok |-> TRUE, p |-> [pr EXCEPT ![id.val] = FMul(@, RDiv(val[1], val[2]))]]
       ELSE [ok |-> FALSE, p |-> pr]

\* lines 145-147: every entry of the master applied, until one raises
RECURSIVE ApplyAll(_, _, _, _)
ApplyAll(res, master, keys, sh) ==
    IF keys = {} \/ ~res.ok THEN res
    ELSE LET key == CHOOSE k \in keys : TRUE
         IN ApplyAll(ApplyKey(res.p, key, master[key], sh), master, keys \ {key}, sh)

\* lines 145-147
ApplyAccumulator ==
    /\ pc = "apply"
    /\ LET res == ApplyAll([ok |-> TRUE, p |-> p], bnd_ind_sum_master,
                           DOMAIN bnd_ind_sum_master, shape)
       IN /\ p' = res.p
          /\ pc' = IF res.ok THEN "normalise" ELSE "raised"
    /\ UNCHANGED <<shape, sim, parallel, limit, ref, data, B_pairs,
                   bndry_ids_master, starts, i, avg, center_ids, wstate, wres,
                   groups, bnd_ind_sum_master, bndry_ids_all, g, hist, probe>>

\* line 148: p/np.sum(p)
Normalised(pr) == [c \in DOMAIN pr |-> FDiv(pr[c], FSum(pr, DOMAIN pr))]

\* line 148
Normalise ==
    /\ pc = "normalise"
    /\ p' = Normalised(p)
    /\ hist' = [hist EXCEPT !.updated = @ + 1]
    /\ pc' = "count"
    /\ UNCHANGED <<shape, sim, parallel, limit, ref, data, B_pairs,
                   bndry_ids_master, starts, i, avg, center_ids, wstate, wres,
                   groups, bnd_ind_sum_master, bndry_ids_all, g, probe>>

\* the statistic divided by exponent*L*i, the "+1" lost: rejected by C3
Average_exponent(b, n) == RDiv(RInt(b), RInt(q * L * n))

\* line 152: avg after i completed iterations
Average(b, n) == RDiv(RInt(b), RInt((q + 1) * L * n))

\* counters that leave the iteration's boundary ids out of the master set:
\* rejected by C28
Counters_unmerged ==
    /\ pc = "count"
    /\ i' = i + 1
    /\ avg' = Average(B_pairs, i + 1)
    /\ bndry_ids_master' = bndry_ids_master
    /\ hist' = [hist EXCEPT !.iters = @ + 1]
    /\ pc' = "while"
    /\ UNCHANGED <<shape, sim, parallel, limit, p, ref, data, B_pairs, starts,
                   center_ids, wstate, wres, groups, bnd_ind_sum_master,
                   bndry_ids_all, g, probe>>

\* lines 151-153
Counters ==
    /\ pc = "count"
    /\ i' = i + 1
    /\ avg' = Average(B_pairs, i + 1)
    /\ bndry_ids_master' = bndry_ids_master \cup bndry_ids_all
    /\ hist' = [hist EXCEPT !.iters = @ + 1]
    /\ pc' = "while"
    /\ UNCHANGED <<shape, sim, parallel, limit, p, ref, data, B_pairs, starts,
                   center_ids, wstate, wres, groups, bnd_ind_sum_master,
                   bndry_ids_all, g, probe>>

Next ==
    \/ LoopTest
    \/ Draw
    \/ \E w \in Workers : LEStart(w)
    \/ \E w \in Workers : LEReturn(w)
    \/ \E w \in Workers : LEFault(w)
    \/ MapRaise
    \/ Gather
    \/ Aggregate
    \/ UpdateRef
    \/ Adjust
    \/ UpdateProb
    \/ ApplyAccumulator
    \/ Normalise
    \/ Counters

Spec == Init /\ [][Next]_vars

-----------------------------------------------------------------------------
(* The Grid Index functions on their own: every grid of GridShapes, every   *)
(* index tuple and id around it, valid or not, put through the conversions *)
(* as LE (lines 18-19) and MCT (lines 104, 146-147) use them               *)

\* largest count of a dimension of a grid on trial
MaxCount == 3

GridShapes == {sh \in UNION {[1 .. d -> 2 .. MaxCount] : d \in 1 .. 3} :
                  NumCells(sh) <= 2 * MaxCount + 2}

NoEnc == [ok |-> FALSE, val |-> 0]
NoDec == [ok |-> FALSE, val |-> <<>>]

InitGrid ==
    /\ shape \in GridShapes
    /\ sim = [c \in Ids(shape) |-> RecStay]
    /\ parallel = FALSE
    /\ limit = MaxLimit
    /\ pc = "apply"
    /\ p = Uniform(shape)
    /\ ref = <<>>
    /\ data = [c \in {} |-> [v |-> 0, fin |-> TRUE]]
    /\ B_pairs = 0
    /\ bndry_ids_master = {}
    /\ starts = {}
    /\ i = 0
    /\ avg = Inf
    /\ center_ids = <<>>
    /\ wstate = [w \in Workers |-> "idle"]
    /\ wres = [w \in Workers |-> NoResult]
    /\ groups = <<>>
    /\ bnd_ind_sum_master = EmptyAcc
    /\ bndry_ids_all = {}
    /\ g = 0
    /\ hist = [drawn |-> 0, updated |-> 0, iters |-> 0, bsum |-> 0,
               calls |-> 0, finished |-> <<>>,
               reported |-> {}]
    /\ \/ \E x \in [1 .. Len(shape) -> (0 - 1) .. MaxCount] :
             probe = [stage |-> "start", kind |-> "ind", ind |-> x, id |-> 0,
                      enc |-> NoEnc, dec |-> NoDec, first |-> 0]
       \/ \E n \in (0 - 1) .. NumCells(shape) :
             probe = [stage |-> "start", kind |-> "id", ind |-> <<>>, id |-> n,
                      enc |-> NoEnc, dec |-> NoDec, first |-> 0]

GridFrame ==
    UNCHANGED <<shape, sim, parallel, limit, ref, data, B_pairs,
                bndry_ids_master, starts, i, avg, center_ids, wstate, wres,
                groups, bnd_ind_sum_master, bndry_ids_all, g, hist>>

\* line 19 and line 146: an index tuple is converted to an id
GridEncode ==
    /\ probe.kind = "ind" /\ probe.stage = "start"
    /\ probe' = [probe EXCEPT !.enc = ind2int(probe.ind, shape), !.stage = "encoded"]
    /\ UNCHANGED <<p, pc>>
    /\ GridFrame

\* line 104: an id is converted to an index tuple
GridDecode ==
    /\ probe.kind = "id" /\ probe.stage = "start"
    /\ probe' = [probe EXCEPT !.dec = int2ind(probe.id, shape), !.stage = "decoded"]
    /\ UNCHANGED <<p, pc>>
    /\ GridFrame

\* the id of an index tuple converted back
GridBack ==
    /\ probe.kind = "ind" /\ probe.stage = "encoded" /\ probe.enc.ok
    /\ probe' = [probe EXCEPT !.dec = int2ind(probe.enc.val, shape), !.stage = "back"]
    /\ UNCHANGED <<p, pc>>
    /\ GridFrame

\* lines 104-105 and 18-19: the index tuple of a drawn id is given to LE, which
\* converts it back as the first of its group ids
GridLE ==
    /\ probe.kind = "id" /\ probe.stage = "decoded" /\ probe.dec.ok
    /\ probe' = [probe EXCEPT !.enc = ind2int(probe.dec.val, shape),
                              !.first = LE(probe.dec.val, sim, shape).ids[1],
                              !.stage = "back"]
    /\ UNCHANGED <<p, pc>>
    /\ GridFrame

\* lines 146-147 for an accumulator entry with this key and the ratio 1/2
GridApply ==
    /\ probe.kind = "ind" /\ probe.stage = "start" /\ pc = "apply"
    /\ LET res == ApplyKey(p, probe.ind, <<One, RInt(2)>>, shape)
       IN /\ p' = res.p
          /\ pc' = IF res.ok THEN "normalise" ELSE "raised"
    /\ probe' = [probe EXCEPT !.stage = "applied"]
    /\ GridFrame

NextGrid ==
    \/ GridEncode
    \/ GridDecode
    \/ GridBack
    \/ GridLE
    \/ GridApply

SpecGrid == InitGrid /\ [][NextGrid]_vars

-----------------------------------------------------------------------------
(* The Equivalence Registry on its own: signatures classified one after     *)
(* the other into the registry, as lines 124-127 do for the signatures of   *)
(* every group                                                              *)

\* largest component of a signature on trial
MaxSig == 3

\* the finite signatures 0..MaxSig and the non-finite one
Signatures == {[v |-> n, fin |-> TRUE] : n \in 0 .. MaxSig} \cup {[v |-> 0, fin |-> FALSE]}

InitRegistry ==
    /\ shape = <<3>>
    /\ sim = [c \in Ids(shape) |-> RecStay]
    /\ parallel = FALSE
    /\ limit = MaxLimit
    /\ pc = "update_ref"
    /\ p = Uniform(shape)
    /\ ref = <<>>
    /\ data = [c \in {} |-> [v |-> 0, fin |-> TRUE]]
    /\ B_pairs = 0
    /\ bndry_ids_master = {}
    /\ starts = {}
    /\ i = 0
    /\ avg = Inf
    /\ center_ids = <<>>
    /\ wstate = [w \in Workers |-> "idle"]
    /\ wres = [w \in Workers |-> NoResult]
    /\ groups = <<>>
    /\ bnd_ind_sum_master = EmptyAcc
    /\ bndry_ids_all = {}
    /\ g = 0
    /\ hist = [drawn |-> 0, updated |-> 0, iters |-> 0, bsum |-> 0,
               calls |-> 0, finished |-> <<>>,
               reported |-> {}]
    /\ probe = [stage |-> "start", before |-> <<>>, le |-> [v |-> 0, fin |-> TRUE],
                idx |-> 0]

\* line 127 for one signature: classify it into the registry
RegClassify ==
    /\ \E le \in Signatures :
          /\ ref' = classify(ref, le)
          /\ probe' = [stage |-> "classified", before |-> ref, le |-> le,
                       idx |-> classIndex(ref, le)]
    /\ UNCHANGED <<shape, sim, parallel, limit, pc, p, data, B_pairs,
                   bndry_ids_master, starts, i, avg, center_ids, wstate, wres,
                   groups, bnd_ind_sum_master, bndry_ids_all, g, hist>>

\* line 132 for one signature: attribute it to its reference
RegAlign ==
    /\ \E le \in Signatures :
          probe' = [stage |-> "aligned", before |-> ref, le |-> adjustLEs2Ref(ref, <<le>>)[1],
                    idx |-> FirstMatch(ref, le)]
    /\ UNCHANGED <<shape, sim, parallel, limit, pc, p, ref, data, B_pairs,
                   bndry_ids_master, starts, i, avg, center_ids, wstate, wres,
                   groups, bnd_ind_sum_master, bndry_ids_all, g, hist>>

NextRegistry ==
    \/ RegClassify
    \/ RegAlign

SpecRegistry == InitRegistry /\ [][NextRegistry]_vars

-----------------------------------------------------------------------------
(* The class-based update on its own: lines 136-143 for one group, on every *)
(* grid of UpdateShapes, from every record of earlier classes               *)

UpdateShapes == {<<3>>, <<2, 2>>}

\* the classes on trial: two finite signatures further apart than eps, and
\* the non-finite one
Classes == {[v |-> 0, fin |-> TRUE], [v |-> 2, fin |-> TRUE], [v |-> 0, fin |-> FALSE]}

\* the records of earlier classes: any set of cells recorded, with any finite
\* class outside the group and, as the update records the cells of the group
\* anew, the class 0 inside it
DataMaps(sh, cells) ==
    {d \in UNION {[S -> {c \in Classes : c.fin}] : S \in SUBSET Ids(sh)} :
        \A c \in (DOMAIN d) \cap cells : d[c].v = 0}

InitUpdate ==
    /\ shape \in UpdateShapes
    /\ sim = [c \in Ids(shape) |-> RecStay]
    /\ parallel = FALSE
    /\ limit = MaxLimit
    /\ pc = "update_prob"
    /\ p = Uniform(shape)
    /\ ref = <<>>
    /\ \E c \in Ids(shape) : center_ids = <<c>>
    /\ data \in DataMaps(shape, {center_ids[1]} \cup NeighborIds(center_ids[1], shape))
    /\ B_pairs = 0
    /\ bndry_ids_master = {}
    /\ starts = {}
    /\ i = 0
    /\ avg = Inf
    /\ wstate = [w \in Workers |-> "idle"]
    /\ wres = [w \in Workers |-> NoResult]
    /\ LET res == LE(int2ind(center_ids[1], shape).val, sim, shape)
       IN \E les \in [1 .. Len(res.ids) -> Classes] :
             groups = <<[res EXCEPT !.les = les]>>
    /\ bnd_ind_sum_master = EmptyAcc
    /\ bndry_ids_all = {}
    /\ g = 1
    /\ hist = [drawn |-> 0, updated |-> 0, iters |-> 0, bsum |-> 0,
               calls |-> 0, finished |-> <<>>,
               reported |-> {}]
    /\ probe = <<>>

NextUpdate == UpdateProb

SpecUpdate == InitUpdate /\ [][NextUpdate]_vars

-----------------------------------------------------------------------------
(* The registry phases on their own: lines 123-132 for a batch of L groups, *)
(* from every registry of at most one reference                             *)

\* the signatures of one group: a center and one neighbor
GroupSignatures == [1 .. 2 -> Signatures]

InitBatch ==
    /\ shape = <<3>>
    /\ sim = [c \in Ids(shape) |-> RecStay]
    /\ parallel = FALSE
    /\ limit = MaxLimit
    /\ pc = "update_ref"
    /\ p = Uniform(shape)
    /\ ref \in {<<>>} \cup {<<le>> : le \in Signatures}
    /\ data = [c \in {} |-> [v |-> 0, fin |-> TRUE]]
    /\ B_pairs = 0
    /\ bndry_ids_master = {}
    /\ starts = {}
    /\ i = 0
    /\ avg = Inf
    /\ center_ids = <<>>
    /\ wstate = [w \in Workers |-> "idle"]
    /\ wres = [w \in Workers |-> NoResult]
    /\ groups \in [1 .. L -> {[NoResult EXCEPT !.les = les] : les \in GroupSignatures}]
    /\ bnd_ind_sum_master = EmptyAcc
    /\ bndry_ids_all = {}
    /\ g = 1
    /\ hist = [drawn |-> 0, updated |-> 0, iters |-> 0, bsum |-> 0,
               calls |-> 0, finished |-> <<>>,
               reported |-> {}]
    /\ probe = [stage |-> "batch", before |-> ref,
                les |-> [k \in 1 .. L |-> groups[k].les]]

NextBatch ==
    \/ UpdateRef
    \/ Adjust

SpecBatch == InitBatch /\ [][NextBatch]_vars

-----------------------------------------------------------------------------
(* The trajectory walk on its own: lines 42-72 for one trajectory, state by *)
(* state, on every grid of WalkShapes from every starting point             *)

WalkShapes == {<<3>>, <<2, 2>>, <<3, 3>>}

\* moves a little more than half a cell width along the first axis
RecDrift == Rec(0, TRUE, <<<<0, 0>>, <<HalfCell + 1, 0>>>>, <<1, 1>>)

WalkRecords == Records \cup {RecDrift}

InitWalk ==
    /\ shape \in WalkShapes
    /\ sim = [c \in Ids(shape) |-> RecStay]
    /\ parallel = FALSE
    /\ limit = MaxLimit
    /\ pc = "map"
    /\ p = Uniform(shape)
    /\ ref = <<>>
    /\ data = [c \in {} |-> [v |-> 0, fin |-> TRUE]]
    /\ B_pairs = 0
    /\ bndry_ids_master = {}
    /\ starts = {}
    /\ i = 0
    /\ avg = Inf
    /\ center_ids = <<>>
    /\ wstate = [w \in Workers |-> "idle"]
    /\ wres = [w \in Workers |-> NoResult]
    /\ groups = <<>>
    /\ bnd_ind_sum_master = EmptyAcc
    /\ bndry_ids_all = {}
    /\ g = 0
    /\ hist = [drawn |-> 0, updated |-> 0, iters |-> 0, bsum |-> 0,
               calls |-> 0, finished |-> <<>>,
               reported |-> {}]
    /\ \E ind \in AllInds(shape), rec \in WalkRecords :
          LET start == ind2pt(ind, shape, TRUE)
              pt0 == StateAt(start, rec.path[1])
          IN probe = [stage |-> "start", rec |-> rec, start |-> start, k |-> 1,
                      cube |-> pt2inds(pt0, shape), pt |-> pt0, keys |-> {},
                      acc |-> EmptyAcc]

\* lines 48-72 for the recorded state k
WalkStep ==
    /\ probe.k <= Len(probe.rec.path)
    /\ LET rec == probe.rec
           pt == StateAt(probe.start, rec.path[probe.k])
           T == CumTime(rec.step, Len(rec.step))
           tk == CumTime(rec.step, probe.k)
           dt == rec.step[probe.k]
           cube2 == NextCube(probe.cube, pt, shape)
           term == RMul(Decay(MaxAbs(rec.le), tk, T), RInt(dt))
           keys == {c \in cube2 : InBnds(c, shape)}
       IN probe' = [probe EXCEPT !.stage = "walked", !.k = @ + 1, !.cube = cube2,
                                 !.pt = pt, !.keys = keys,
                                 !.acc = AccCorners(@, keys, term, dt)]
    /\ UNCHANGED <<shape, sim, parallel, limit, pc, p, ref, data, B_pairs,
                   bndry_ids_master, starts, i, avg, center_ids, wstate, wres,
                   groups, bnd_ind_sum_master, bndry_ids_all, g, hist>>

NextWalk == WalkStep

SpecWalk == InitWalk /\ [][NextWalk]_vars

-----------------------------------------------------------------------------
(* The claims of the specification, C1 to C10 *)

\* the pcs of an iteration in progress, and those after the gather of line 111
InIteration == {"draw", "map", "aggregate", "update_ref", "adjust",
                "update_prob", "apply", "normalise", "count"}
AfterGather == {"aggregate", "update_ref", "adjust", "update_prob", "apply",
                "normalise", "count"}
AfterAggregate == {"update_ref", "adjust", "update_prob", "apply", "normalise",
                   "count"}

\* the weights of pr are numbers and sum to 1 within the rounding of one unit
\* in the last place per weight
SumsToOne(pr) ==
    /\ \A c \in DOMAIN pr : IsFinite(pr[c])
    /\ Abs(FSum(pr, DOMAIN pr)[1] - Scale) <= Cardinality(DOMAIN pr)

\* C1: after every iteration of MCT (class update, accumulator multiplication,
\* renormalisation) the weights of p sum to 1, whatever the workers returned.
C1_SumsToOneAfterEveryIteration ==
    (pc = "count" \/ (pc = "while" /\ i > 0)) => SumsToOne(p)

\* C1 for the runs in which every trajectory has a finite Signature and more
\* than one recorded state: there the weights do sum to 1
C1_FiniteRuns ==
    (\A c \in DOMAIN sim : sim[c].le.fin /\ Len(sim[c].path) > 1)
        => C1_SumsToOneAfterEveryIteration

\* an iteration has been completed with a weight that is not a number
C1_NaNField == pc = "while" /\ i > 0 /\ \E c \in DOMAIN p : IsNaN(p[c])

\* C2: MCT leaves Running exactly when i >= limit or avg <= AVG: an iteration
\* is in progress only if it was started with i < limit and avg > AVG, the
\* iteration count never exceeds limit, and on return one of the two stop
\* conditions holds.
C2_LoopTermination ==
    /\ i <= limit
    /\ pc \in InIteration \ {"count"} => (i < limit /\ RGt(avg, AVG))
    /\ pc = "count" => i < limit
    /\ pc = "done" => (i >= limit \/ ~RGt(avg, AVG))

\* MCT has returned converged, before the iteration limit
C2_Converged == pc = "done" /\ 0 < i /\ i < limit /\ ~RGt(avg, AVG)

\* C3: at the end of every iteration avg = cumulativeBoundaryPairs /
\* ((exponent+1) * L * iterationIndex), the pairs summed over every
\* probability update so far and the index counting the completed iterations,
\* one more per iteration.
C3_ConvergenceStatistic ==
    (pc = "while" /\ hist.updated > 0) =>
        /\ i = hist.updated
        /\ i = hist.drawn
        /\ B_pairs = hist.bsum
        /\ IF hist.bsum = 0 THEN avg = Zero
           ELSE /\ IsFinite(avg)
                /\ avg[1] * ((q + 1) * L * hist.updated) = hist.bsum * avg[2]

\* two iterations are complete and boundary pairs have been counted
C3_TwoIterations == pc = "while" /\ hist.updated >= 2 /\ hist.bsum > 0

\* a worker invocation of the batch is dispatched and has not returned
InFlight(w) == wstate[w] \in {"ready", "running"}

\* C4: batches are strictly sequential: centers are drawn only when every
\* invocation and the whole update of the iteration before are complete, and
\* no invocation is in flight while anything is being aggregated.
C4_BatchesSequential ==
    /\ (\E w \in Workers : InFlight(w)) =>
          (pc = "map" /\ hist.drawn = hist.updated + 1 /\ i = hist.updated)
    /\ pc = "draw" =>
          /\ hist.drawn = hist.updated
          /\ i = hist.updated
          /\ \A w \in Workers : ~InFlight(w)
    /\ pc \in AfterGather => \A w \in Workers : wstate[w] = "done"

\* the centers of a second iteration are about to be drawn
C4_SecondDraw == pc = "draw" /\ i >= 1 /\ \A w \in Workers : wstate[w] = "done"

\* C5: one invocation of LE per drawn center, and aggregation starts only
\* with the list of exactly L results, one per center in the order of the
\* centers, under any interleaving of the workers.
C5_ScatterGather ==
    /\ hist.calls <= L
    /\ pc \in AfterGather =>
          /\ hist.calls = L
          /\ Len(hist.finished) = L
          /\ Len(groups) = L
          /\ Len(center_ids) = L
          /\ \A k \in 1 .. L : groups[k].ids[1] = center_ids[k]

\* the pool finished the second invocation first, the centers being distinct
C5_OutOfOrderCompletion ==
    /\ pc = "aggregate"
    /\ parallel
    /\ hist.finished = <<2, 1>>
    /\ center_ids[1] # center_ids[2]

\* the state that only the orchestrator may write
SharedState == <<ref, p, data, i, avg, B_pairs, starts, bndry_ids_master>>

\* C6: ref, p and the Run State (i, avg, B_pairs, seen set, boundary set) are
\* written only between batches: while an invocation is in flight none of them
\* changes, and a returning invocation changes nothing but its own result,
\* under any interleaving of the workers.
C6_WorkersIsolated ==
    [][/\ (\E w \in Workers : InFlight(w)) => UNCHANGED SharedState
       /\ \A w \in Workers :
             (wstate[w] = "running" /\ wstate'[w] = "done") =>
                /\ UNCHANGED <<groups, bnd_ind_sum_master, center_ids>>
                /\ \A v \in Workers \ {w} : wres'[v] = wres[v]
       /\ wres' # wres =>
             \E w \in Workers : wstate[w] = "running" /\ wstate'[w] = "done"]_vars

\* in a later iteration one invocation has returned while another is running
C6_WorkerRunning ==
    /\ wstate[1] = "done"
    /\ wstate[2] = "running"
    /\ i >= 1
    /\ Len(ref) >= 1

\* the componentwise sum of the pairs of key over the first k worker results
RECURSIVE KeySum(_, _)
KeySum(key, k) ==
    IF k = 0 THEN <<Zero, Zero>>
    ELSE LET rest == KeySum(key, k - 1)
             d == groups[k].bnd_ind_sum
         IN IF key \in DOMAIN d
            THEN <<RAdd(rest[1], d[key][1]), RAdd(rest[2], d[key][2])>>
            ELSE rest

\* the master built from the worker results taken in the order perm, the
\* dictionary of result k iterated in the order ords[k]
RECURSIVE MergedIn(_, _, _)
MergedIn(master, perm, ords) ==
    IF perm = <<>> THEN master
    ELSE MergedIn(MergeAll(master, groups[perm[1]].bnd_ind_sum, ords[perm[1]]),
                  Tail(perm), ords)

\* one iteration order for the dictionary of every worker result
DictOrders ==
    LET all == UNION {Orders(DOMAIN groups[k].bnd_ind_sum) : k \in 1 .. Len(groups)}
    IN {f \in [1 .. Len(groups) -> all] :
           \A k \in 1 .. Len(groups) : f[k] \in Orders(DOMAIN groups[k].bnd_ind_sum)}

\* C7: the round-level accumulator is, for every cell key, the componentwise
\* sum of the (weighted_decay, weight) pairs of that key over all worker
\* results of the iteration, and is the same for every permutation of the
\* results and every iteration order over each result's dictionary.
C7_AccumulatorIsSum ==
    pc \in AfterAggregate =>
        /\ DOMAIN bnd_ind_sum_master =
              UNION {DOMAIN groups[k].bnd_ind_sum : k \in 1 .. Len(groups)}
        /\ \A key \in DOMAIN bnd_ind_sum_master :
              bnd_ind_sum_master[key] = KeySum(key, Len(groups))
        /\ (pc = "update_ref" /\ g = 1) =>
              \A perm \in Orders(1 .. Len(groups)) : \A ords \in DictOrders :
                  MergedIn(EmptyAcc, perm, ords) = bnd_ind_sum_master

\* two worker results hold different pairs for the same key
C7_SharedKey ==
    /\ pc = "update_ref"
    /\ \E key \in DOMAIN groups[1].bnd_ind_sum \cap DOMAIN groups[2].bnd_ind_sum :
          groups[1].bnd_ind_sum[key] # groups[2].bnd_ind_sum[key]

\* every component of the index lies in [0, count_d)
InGrid(ind, sh) ==
    /\ Len(ind) = Len(sh)
    /\ \A d \in 1 .. Len(sh) : 0 <= ind[d] /\ ind[d] < sh[d]

\* the row-major mixed-radix number with the digits ind[1..d], by Horner's rule
RECURSIVE Horner(_, _, _)
Horner(ind, sh, d) ==
    IF d = 0 THEN 0 ELSE Horner(ind, sh, d - 1) * sh[d] + ind[d]

\* C8: idToCellIndex(cellIndexToId(idx)) = idx for every valid index,
\* cellIndexToId(idToCellIndex(id)) = id for every id of the grid, the id is
\* the row-major mixed-radix encoding of the index, and LE maps the index of a
\* drawn center back to the same id as the first of its group ids.
C8_GridBijection ==
    /\ (probe.kind = "ind" /\ probe.stage \in {"encoded", "back"}
            /\ InGrid(probe.ind, shape)) =>
          /\ probe.enc.ok
          /\ probe.enc.val = Horner(probe.ind, shape, Len(shape))
          /\ probe.enc.val \in 0 .. (SeqProd(shape) - 1)
    /\ (probe.kind = "ind" /\ probe.stage = "back") =>
          (probe.dec.ok /\ probe.dec.val = probe.ind)
    /\ (probe.kind = "id" /\ probe.stage \in {"decoded", "back"}
            /\ probe.id \in 0 .. (SeqProd(shape) - 1)) =>
          (probe.dec.ok /\ InGrid(probe.dec.val, shape))
    /\ (probe.kind = "id" /\ probe.stage = "back") =>
          /\ probe.enc.ok
          /\ probe.enc.val = probe.id
          /\ probe.first = probe.id

\* the last id of a grid of three dimensions has gone through LE
C8_LastIdBack ==
    /\ probe.kind = "id"
    /\ probe.stage = "back"
    /\ Len(shape) = 3
    /\ probe.id = SeqProd(shape) - 1

\* C9: the conversions fail with OutOfRange whenever a component of the index
\* is outside [0, count_d) or the id is outside the grid; the failure is fatal:
\* no valid id comes out of it and no weight of p is changed for the index.
C9_OutOfRangeFatal ==
    /\ (probe.kind = "ind" /\ probe.stage = "encoded"
            /\ ~InGrid(probe.ind, shape)) => ~probe.enc.ok
    /\ (probe.kind = "id" /\ probe.stage = "decoded"
            /\ probe.id \notin 0 .. (SeqProd(shape) - 1)) => ~probe.dec.ok
    /\ (probe.kind = "ind" /\ probe.stage = "applied"
            /\ ~InGrid(probe.ind, shape)) =>
          (pc = "raised" /\ p = Uniform(shape))

\* an accumulator entry whose key has a negative component has been applied
C9_NegativeKeyApplied ==
    /\ probe.kind = "ind"
    /\ probe.stage = "applied"
    /\ \E d \in 1 .. Len(shape) : probe.ind[d] < 0

\* C10: the size of the registry ref never decreases over any sequence of
\* classify/align calls and iterations: no reference signature is removed.
C10_RegistryMonotone ==
    [][/\ Len(ref') >= Len(ref)
       /\ \A n \in 1 .. Len(ref) : ref'[n] = ref[n]]_vars

\* the registry holds two references and a later iteration has classified
C10_TwoReferences == pc = "adjust" /\ i >= 1 /\ Len(ref) >= 2

-----------------------------------------------------------------------------
(* The claims of the specification, C11 to C20 *)

\* C11: classifying a signature exactly equal to a registered reference
\* returns that reference's own class index and leaves the size of the
\* registry unchanged; classifying a signature that matches no reference
\* appends it as a new class and returns the new, last, index.
C11_IdempotentClassification ==
    probe.stage = "classified" =>
        /\ (\E n \in 1 .. Len(probe.before) : probe.before[n] = probe.le) =>
              /\ probe.idx \in 1 .. Len(probe.before)
              /\ probe.before[probe.idx] = probe.le
              /\ Len(ref) = Len(probe.before)
              /\ ref = probe.before
        /\ (\A n \in 1 .. Len(probe.before) :
                IF probe.before[n].fin /\ probe.le.fin
                THEN Abs(probe.before[n].v - probe.le.v) > eps
                ELSE probe.before[n].fin # probe.le.fin) =>
              /\ ref = Append(probe.before, probe.le)
              /\ probe.idx = Len(ref)

\* the second of three references, one of them non-finite, was classified again
C11_SecondReferenceAgain ==
    /\ probe.stage = "classified"
    /\ Len(probe.before) = 3
    /\ probe.before[2] = probe.le
    /\ \E n \in 1 .. 3 : ~probe.before[n].fin

\* two classes differ: finite signatures further apart than eps, or one
\* finite and the other not
Differ(a, b) ==
    IF a.fin /\ b.fin THEN Abs(a.v - b.v) > eps ELSE a.fin # b.fin

AllNonFinite == \A c \in DOMAIN sim : ~sim[c].le.fin

\* C13: when the Simulator returns a non-finite Signature for every call,
\* neither LE nor MCT crashes: every iteration completes with a usable
\* Probability Field, the loop terminates at iterationLimit, and the final
\* registry holds at least one degenerate class.
C13_DegenerateInputTolerance ==
    AllNonFinite =>
        /\ pc # "raised"
        /\ (pc = "while" /\ i > 0) => SumsToOne(p)
        /\ pc = "done" =>
              /\ i = limit
              /\ \E n \in 1 .. Len(ref) : ~ref[n].fin

\* with every Signature non-finite MCT has returned before the iteration
\* limit, with a field of nan
C13_ReturnedNaNField ==
    /\ AllNonFinite
    /\ pc = "done"
    /\ i < limit
    /\ \A c \in DOMAIN p : IsNaN(p[c])

\* some cell of pr has a positive weight
SomePositive(pr) == \E c \in DOMAIN pr : IsFinite(pr[c]) /\ pr[c][1] > 0

\* C14: after each update of the Probability Field at least one cell has a
\* positive weight; an update that leaves none is the fatal error
\* DegenerateProbabilityField and never yields a field the next draw reads.
C14_SomeWeightPositive ==
    /\ (pc = "count" \/ (pc = "while" /\ i > 0)) => SomePositive(p)
    /\ (pc = "draw" /\ i > 0) => SomePositive(p)

\* the centers of the next iteration are about to be drawn from a field
\* without a positive weight
C14_DrawFromDegenerateField == pc = "draw" /\ i > 0 /\ ~SomePositive(p)

\* C15: a fault raised by a worker invocation is propagated and aborts the
\* run: MCT never goes on with a partial batch, so the registry, the field,
\* the boundary-pair count and the iteration counter are never updated from a
\* batch with a member missing.
C15_NoPartialBatch ==
    (\E w \in Workers : wstate[w] = "failed") =>
        /\ pc \in {"map", "raised"}
        /\ hist.drawn = hist.updated + 1
        /\ i = hist.updated
        /\ B_pairs = hist.bsum
        /\ Len(groups) = (IF i = 0 THEN 0 ELSE L)

\* in a later iteration the run was aborted with one invocation returned and
\* the other failed
C15_AbortedPartialBatch ==
    /\ pc = "raised"
    /\ i >= 1
    /\ \E w \in Workers : wstate[w] = "failed"
    /\ \E w \in Workers : wstate[w] = "done"

\* a two-class system with a clean boundary on the grid of one dimension:
\* every cell left of cell b is of class 0, cell b and those right of it of
\* class 2
TwoClassAt(b) ==
    /\ Len(shape) = 1
    /\ b \in 1 .. (shape[1] - 1)
    /\ \A c \in DOMAIN sim :
          sim[c].le.fin /\ sim[c].le.v = (IF c < b THEN 0 ELSE 2)

\* C16: for a two-class system with a clean boundary on a 1-D grid the
\* sampler terminates with avg at or below the threshold, before the
\* iteration limit, and a cell of the boundary pair is among the boundary
\* Cell Ids it reports.
C16_ConvergesOnCleanBoundary ==
    \A b \in 1 .. 2 :
        (TwoClassAt(b) /\ pc = "done") =>
            /\ ~RGt(avg, AVG)
            /\ i < limit
            /\ (b \in bndry_ids_master \/ (b - 1) \in bndry_ids_master)

\* MCT has returned converged after one iteration without a boundary cell
C16_ConvergedWithoutBoundary ==
    /\ \E b \in 1 .. 2 : TwoClassAt(b)
    /\ pc = "done"
    /\ i = 1
    /\ ~RGt(avg, AVG)
    /\ bndry_ids_master = {}

\* MCT has found the boundary and returned at the iteration limit, avg above
\* the threshold
C16_LimitReachedWithBoundary ==
    /\ \E b \in 1 .. 2 : TwoClassAt(b)
    /\ pc = "done"
    /\ i = limit
    /\ RGt(avg, AVG)
    /\ bndry_ids_master # {}

\* C17: in the two-class scenario on the 1-D grid the final Registry holds
\* exactly two classes, whatever centers are drawn.
C17_ExactlyTwoClasses ==
    ((\E b \in 1 .. 2 : TwoClassAt(b)) /\ pc = "done") => Len(ref) = 2

\* MCT has returned from the two-class scenario with one class registered
C17_ReturnedWithOneClass ==
    /\ \E b \in 1 .. 2 : TwoClassAt(b)
    /\ pc = "done"
    /\ Len(ref) = 1

\* the cell of the grid <<3>> farthest from the boundary pair {b - 1, b}
FarCell(b) == IF b = 1 THEN 2 ELSE 0

\* C18: in the two-class scenario the final field gives both cells of the
\* boundary pair strictly more weight than the cell far from the boundary,
\* for every terminating draw sequence.
C18_BoundaryOutweighsFarCells ==
    \A b \in 1 .. 2 :
        (TwoClassAt(b) /\ shape = <<3>> /\ pc = "done") =>
            /\ RGt(p[b - 1], p[FarCell(b)])
            /\ RGt(p[b], p[FarCell(b)])

\* MCT has returned from the two-class scenario with a cell of the boundary
\* pair no heavier than the far cell
C18_BoundaryCellNotHeavier ==
    \E b \in 1 .. 2 :
        /\ TwoClassAt(b) /\ shape = <<3>> /\ pc = "done"
        /\ bndry_ids_master = {}
        /\ IsFinite(p[b - 1]) /\ IsFinite(p[FarCell(b)])
        /\ ~RGt(p[b - 1], p[FarCell(b)])

\* the cells of the group being updated
GroupCells == {groups[g].ids[n] : n \in 1 .. Len(groups[g].ids)}

\* the compared neighbors of cell a, under the record dat, whose class
\* differs from a's
DifferingNeighbors(a, dat) ==
    {b \in NeighborIds(a, shape) \cap DOMAIN dat : Differ(dat[a], dat[b])}

\* C19: in the class-based update of a group, a cell of the group with a
\* compared neighbor of another class has its weight, and the weights of its
\* disagreeing neighbors, multiplied by eta_1 > 1; a cell of the group whose
\* compared neighbors all agree has its weight multiplied by eta_2 <= 1; a
\* cell that is neither in the group nor a disagreeing neighbor of one of its
\* cells keeps its weight.
C19_ClassBasedUpdate ==
    [][(pc = "update_prob" /\ pc' # "update_prob" /\ Len(groups) = 1) =>
        /\ RGt(eta_1, One) /\ ~RGt(eta_2, One)
        /\ \A a \in GroupCells :
              IF DifferingNeighbors(a, data') # {}
              THEN /\ p'[a] = FMul(p[a], eta_1)
                   /\ \A b \in DifferingNeighbors(a, data') :
                         p'[b] = FMul(p[b], eta_1)
              ELSE p'[a] = FMul(p[a], eta_2)
        /\ \A c \in Ids(shape) :
              (/\ c \notin GroupCells
               /\ \A a \in GroupCells : c \notin DifferingNeighbors(a, data'))
                  => p'[c] = p[c]]_vars

\* an update has grown a boundary cell of the group and its disagreeing
\* neighbor outside the group, and shrunk a cell of the group whose neighbors
\* agree
C19_GrownAndShrunk ==
    /\ pc = "apply"
    /\ B_pairs > 0
    /\ LET cells == {groups[1].ids[n] : n \in 1 .. Len(groups[1].ids)}
           u == Uniform(shape)
       IN /\ \E a \in cells : p[a] = FMul(u[a], eta_1)
          /\ \E b \in Ids(shape) \ cells : p[b] = FMul(u[b], eta_1)
          /\ \E c \in cells : p[c] = FMul(u[c], eta_2)

\* the keys of the round's accumulator that stand for Cell Id id
EntryKeys(id) ==
    {k \in DOMAIN bnd_ind_sum_master :
        ind2int(k, shape).ok /\ ind2int(k, shape).val = id}

-----------------------------------------------------------------------------
(* The claims of the specification, C21 to C30 *)

\* C21: the field is uniform over all Cell Ids before the first draw; every
\* draw returns exactly L Cell Ids of [0, product of counts), each of
\* positive weight in the field of the start of the iteration (a Cell Id may
\* come more than once), and every drawn id is in the seen set starts; starts
\* only grows, and only by the ids drawn.
C21_DrawAndSeenSet ==
    [][/\ (i = 0 /\ pc \in {"while", "draw"}) =>
             /\ DOMAIN p = 0 .. (SeqProd(shape) - 1)
             /\ \A a, b \in DOMAIN p : p[a] = p[b]
             /\ SumsToOne(p)
             /\ starts = {}
       /\ (pc = "while" /\ pc' = "draw") => p' = p
       /\ (pc = "draw" /\ pc' = "map") =>
             /\ Len(center_ids') = L
             /\ \A n \in 1 .. L :
                   /\ center_ids'[n] \in 0 .. (SeqProd(shape) - 1)
                   /\ RGt(p[center_ids'[n]], Zero)
                   /\ center_ids'[n] \in starts'
             /\ starts' = starts \cup {center_ids'[n] : n \in 1 .. L}
       /\ starts \subseteq starts'
       /\ (pc # "draw") => starts' = starts]_vars

\* the second batch has drawn one Cell Id twice, from a field that is no
\* longer uniform, and the seen set holds a Cell Id of the first batch too
C21_RepeatedCenterDrawn ==
    /\ pc = "map"
    /\ i = 1
    /\ center_ids[1] = center_ids[2]
    /\ \E c \in DOMAIN p : p[c] # p[center_ids[1]]
    /\ \E c \in starts : c # center_ids[1]

\* C22: after any sequence of classify/align calls any two references of the
\* registry differ by more than the tolerance eps (a non-finite reference
\* differing from every finite one): no class is appended for a signature
\* that matches a reference within tolerance.
C22_ReferencesPairwiseApart ==
    /\ \A m, n \in 1 .. Len(ref) :
          m # n => (IF ref[m].fin /\ ref[n].fin
                    THEN Abs(ref[m].v - ref[n].v) > eps
                    ELSE ref[m].fin # ref[n].fin)
    /\ (/\ probe.stage = "classified"
        /\ \E n \in 1 .. Len(probe.before) :
              IF probe.before[n].fin /\ probe.le.fin
              THEN Abs(probe.before[n].v - probe.le.v) <= eps
              ELSE probe.before[n].fin = probe.le.fin) => ref = probe.before

\* a signature within tolerance of a reference, and equal to none, was
\* classified into a registry of three references
C22_NearReferenceClassified ==
    /\ probe.stage = "classified"
    /\ Len(probe.before) = 3
    /\ \A n \in 1 .. 3 : probe.before[n] # probe.le
    /\ \E n \in 1 .. 3 : probe.before[n].fin /\ probe.le.fin
                            /\ Abs(probe.before[n].v - probe.le.v) = eps

\* the places of the batch: group k, signature n
Places == {kn \in (1 .. L) \X (1 .. 2) : kn[2] <= Len(probe.les[kn[1]])}

\* the registry, and the aligned signatures of group k, had the groups of the
\* batch been processed in the reverse order
ReverseRef == update_LERef(update_LERef(probe.before, probe.les[2]), probe.les[1])

\* two signatures within tolerance of each other
Near(a, b) == IF a.fin /\ b.fin THEN Abs(a.v - b.v) <= eps ELSE a.fin = b.fin

\* the first reference of refs within tolerance of le
FirstNear(refs, le) ==
    refs[CHOOSE n \in 1 .. Len(refs) :
            /\ Near(refs[n], le)
            /\ \A m \in 1 .. (n - 1) : ~Near(refs[m], le)]

ReverseAligned(k) == [n \in 1 .. Len(probe.les[k]) |-> FirstNear(ReverseRef, probe.les[k][n])]

\* the signatures of the batch and the references fall in clusters: being
\* within tolerance is transitive over them
Clustered ==
    LET S == {probe.les[kn[1]][kn[2]] : kn \in Places}
             \cup {probe.before[n] : n \in 1 .. Len(probe.before)}
    IN \A x, y, z \in S : (Near(x, y) /\ Near(y, z)) => Near(x, z)

\* equal signatures of the batch are given the same class
SameSignatureSameClass ==
    \A a, b \in Places :
        probe.les[a[1]][a[2]] = probe.les[b[1]][b[2]]
            => groups[a[1]].les[a[2]] = groups[b[1]].les[b[2]]

\* two signatures of the batch are in one class exactly when they are in one
\* class with the groups processed in the reverse order
SameClassesInReverse ==
    \A a, b \in Places :
        (groups[a[1]].les[a[2]] = groups[b[1]].les[b[2]])
            <=> (ReverseAligned(a[1])[a[2]] = ReverseAligned(b[1])[b[2]])

\* C23 as stated: classification is deterministic, and the classes given to
\* the signatures of a batch do not depend on the order in which the groups
\* of the batch are processed.
C23_OrderIndependentClasses ==
    (probe.stage = "batch" /\ pc = "update_prob") =>
        (SameSignatureSameClass /\ SameClassesInReverse)

\* C23 amended: classification is deterministic for the order of the groups
\* given, equal signatures being given the same class; the classes do not
\* depend on the order of the groups when the signatures of the batch and the
\* references fall in clusters, being within tolerance transitive over them.
C23_OrderIndependentWhenClustered ==
    (probe.stage = "batch" /\ pc = "update_prob") =>
        /\ SameSignatureSameClass
        /\ \A a \in Places :
              groups[a[1]].les[a[2]] = FirstNear(ref, probe.les[a[1]][a[2]])
        /\ Clustered => SameClassesInReverse

\* a clustered batch of two classes, a signature of one group within
\* tolerance of, and not equal to, a signature of the other, has been aligned
C23_ClusteredBatchAligned ==
    /\ probe.stage = "batch" /\ pc = "update_prob"
    /\ Clustered
    /\ Len(ref) = 2
    /\ probe.les[1][1].fin /\ probe.les[2][1].fin
    /\ Abs(probe.les[1][1].v - probe.les[2][1].v) = eps

\* every key of the accumulator acc is a Cell Index of the grid, its grid
\* point within the monitoring rectangle
KeysValid(acc) ==
    \A key \in DOMAIN acc :
        /\ Len(key) = Len(shape)
        /\ \A d \in 1 .. Len(shape) : key[d] \in 0 .. (shape[d] - 1)

\* C24: LE accumulates into the entry of a corner only if the corner lies
\* within the monitoring rectangle in every dimension: every key of every
\* accumulator returned by LE and of the round's accumulator is a valid Cell
\* Index, and its conversion to a Cell Id at line 146 never goes out of range.
C24_AccumulatorKeysValid ==
    [][/\ \A w \in Workers : KeysValid(wres'[w].bnd_ind_sum)
       /\ \A k \in 1 .. Len(groups') : KeysValid(groups'[k].bnd_ind_sum)
       /\ KeysValid(bnd_ind_sum_master')
       /\ pc = "apply" => pc' \in {"apply", "normalise"}]_vars

\* LE has returned for a group with a trajectory that left the monitoring
\* rectangle, and the round's accumulator has been applied
C24_TrajectoryLeftRectangle ==
    /\ pc = "normalise"
    /\ \E k \in 1 .. Len(groups) : \E n \in 1 .. Len(groups[k].ids) :
          \E d \in 1 .. Len(shape) :
             groups[k].endpts[n][d] > Res * (shape[d] - 1)
    /\ bnd_ind_sum_master # EmptyAcc

\* the point lies in the closed grid cell whose corners are cube
CellContains(cube, pt) ==
    \A d \in 1 .. Len(pt) :
        /\ \E c \in cube : Res * c[d] <= pt[d]
        /\ \E c \in cube : Res * c[d] >= pt[d]

\* C25: at every step of the walk at which accumulation happens the tracked
\* corners are those of the grid cell that contains the trajectory point: the
\* walk never accumulates into the corners of a cell the point has left.
C25_TrackedCellContainsPoint ==
    (probe.stage = "walked" /\ probe.keys # {}) =>
        CellContains(probe.cube, probe.pt)

\* on a grid of two dimensions the walk has accumulated into the corners of
\* the starting cell for a point that lies in the next cell
C25_AccumulatedIntoCellLeft ==
    /\ probe.stage = "walked"
    /\ Len(shape) = 2
    /\ probe.cube = pt2inds(probe.start, shape)
    /\ probe.keys = probe.cube
    /\ ~CellContains(probe.cube, probe.pt)
    /\ \A c \in probe.cube : DistSq(probe.pt, c) <= DiagSq(shape)

\* C26: every result of LE describes the group "center, then its selected
\* neighbors": the first group id is the id of the center, no other group id
\* is, every group id is a Cell Id of the grid, and the signatures and the
\* endpoints are as many as the group ids and in their order, one simulation
\* for each group point.
C26_GroupOfCenterAndNeighbors ==
    \A w \in Workers :
        wstate[w] = "done" =>
            LET res == wres[w]
            IN /\ Len(res.ids) >= 1
               /\ res.ids[1] = center_ids[w]
               /\ \A n \in 2 .. Len(res.ids) : res.ids[n] # center_ids[w]
               /\ \A n \in 1 .. Len(res.ids) :
                     res.ids[n] \in 0 .. (SeqProd(shape) - 1)
               /\ Len(res.les) = Len(res.ids)
               /\ Len(res.endpts) = Len(res.ids)
               /\ \A n \in 1 .. Len(res.ids) :
                     /\ res.les[n] = sim[res.ids[n]].le
                     /\ Len(res.endpts[n]) = Len(shape)
                     /\ LET rec == sim[res.ids[n]]
                            start == IF res.ids[n] = 0 THEN HalfCell
                                     ELSE IF res.ids[n] = shape[1] - 1
                                          THEN Res * res.ids[n] - HalfCell
                                          ELSE Res * res.ids[n]
                        IN res.endpts[n][1] = start + rec.path[Len(rec.path)][1]

\* LE has returned for a center with a neighbor on either side, the
\* signature of its last group point unlike that of the center
C26_GroupOfThreeReturned ==
    \E w \in Workers :
        /\ wstate[w] = "done"
        /\ Len(wres[w].ids) = 3
        /\ wres[w].les[3] # wres[w].les[1]

\* the phase at pc goes through the groups one by one, each once, and is
\* left for the phase next only after the last group
WholeBatch(phase, next) ==
    pc = phase =>
        /\ g \in 1 .. Len(groups)
        /\ Len(groups) = L
        /\ pc' \in {phase, next}
        /\ pc' = phase => g' = g + 1
        /\ pc' = next => g = Len(groups)

\* C27: within an iteration the phases run in a fixed order over the whole
\* batch: the registry is updated with the signatures of every group before
\* any group is re-attributed, every group is re-attributed before the field
\* is updated for any group, the class-based update of every group comes
\* before the accumulator is applied, and the renormalisation is the last
\* write to the field in the iteration.
C27_PhaseOrder ==
    [][/\ WholeBatch("update_ref", "adjust")
       /\ WholeBatch("adjust", "update_prob")
       /\ WholeBatch("update_prob", "apply")
       /\ ref' # ref => pc = "update_ref"
       /\ (pc \in {"adjust", "update_prob", "apply", "normalise", "count"})
             => ref' = ref
       /\ (groups' # groups /\ pc # "map") => pc = "adjust"
       /\ p' # p => pc \in {"update_prob", "apply", "normalise"}
       /\ pc = "apply" => (pc' \in {"apply", "normalise"} /\ data' = data)
       /\ pc = "normalise" => pc' \in {"normalise", "count"}
       /\ pc = "count" => (pc' \in {"count", "while"} /\ p' = p)]_vars

\* in a second iteration, two classes registered and boundary pairs counted,
\* the field is about to be renormalised
C27_SecondIterationNormalise ==
    /\ pc = "normalise"
    /\ i = 1
    /\ Len(ref) >= 2
    /\ B_pairs > 0
    /\ bnd_ind_sum_master # EmptyAcc

\* C28: across the iterations the cumulative boundary-pair count never
\* decreases, no Cell Id is ever removed from the set of boundary Cell Ids,
\* and between iterations and on return that set is exactly the union of the
\* sets reported by the probability updates of every group of every
\* iteration.
C28_BoundarySetIsUnionOfReports ==
    [][/\ B_pairs' >= B_pairs
       /\ bndry_ids_master \subseteq bndry_ids_master'
       /\ pc' \in {"while", "draw", "done"} => bndry_ids_master' = hist'.reported]_vars

\* MCT has returned at the iteration limit with boundary Cell Ids reported in
\* every iteration
C28_ReturnedWithBoundaryIds ==
    /\ pc = "done"
    /\ i = limit
    /\ bndry_ids_master # {}
    /\ bndry_ids_all # {}
    /\ B_pairs >= limit

\* C29: no pool is made or used when nodes <= 1 or parallel is false: the
\* invocations then run one after the other in the order of the centers; and
\* in both modes the list that MCT is given holds, for each drawn center in
\* order, the result of LE for that center, whatever the order of completion,
\* so that the registry, the field and the Run State after the iteration do
\* not depend on the mode.
C29_DispatchModesAgree ==
    /\ \A n \in {0, 1, 2, nodes}, par \in BOOLEAN :
          UsePool(n, par) <=> (n > 1 /\ par)
    /\ ~parallel =>
          /\ \A w \in Workers :
                wstate[w] \in {"running", "done", "failed"} =>
                    \A v \in 1 .. (w - 1) : wstate[v] = "done"
          /\ \A n \in 1 .. Len(hist.finished) : hist.finished[n] = n
    /\ (pc = "aggregate" /\ g = 1) =>
          /\ Len(groups) = Len(center_ids)
          /\ \A k \in 1 .. Len(groups) :
                groups[k] = LE(int2ind(center_ids[k], shape).val, sim, shape)

\* the pool has returned the results of two distinct centers, unlike each
\* other, the second invocation having finished first
C29_PoolResultsInInputOrder ==
    /\ pc = "aggregate" /\ g = 1
    /\ parallel
    /\ hist.finished = <<2, 1>>
    /\ groups[1].ids[1] = center_ids[1]
    /\ groups[1].les # groups[2].les
    /\ groups[1].bnd_ind_sum # groups[2].bnd_ind_sum

\* the entry val of an accumulator gives a multiplier in (0, 1]: its weight
\* is a number other than 0 and its decay a positive number no larger
MultiplierInUnitInterval(val) ==
    /\ IsFinite(val[1]) /\ IsFinite(val[2])
    /\ RGt(val[2], Zero)
    /\ RGt(val[1], Zero)
    /\ ~RGt(val[1], val[2])

\* C30: every multiplier that the accumulator applies to a weight is well
\* defined and lies in (0, 1], for every entry returned by LE and merged by
\* MCT and every trajectory the Simulator can return, one with a single
\* recorded state included; the accumulator step never makes a weight
\* undefined or negative.
C30_MultipliersInUnitInterval ==
    /\ \A w \in Workers : \A key \in DOMAIN wres[w].bnd_ind_sum :
          MultiplierInUnitInterval(wres[w].bnd_ind_sum[key])
    /\ \A key \in DOMAIN bnd_ind_sum_master :
          MultiplierInUnitInterval(bnd_ind_sum_master[key])
    /\ pc = "normalise" => \A c \in DOMAIN p : IsFinite(p[c]) /\ p[c][1] >= 0

\* after a trajectory with a single recorded state, every signature finite,
\* the accumulator has been applied with a decay that is not a number and has
\* left a weight that is not a number
C30_UndefinedMultiplierApplied ==
    /\ pc = "normalise"
    /\ \A c \in DOMAIN sim : sim[c].le.fin
    /\ \E c \in DOMAIN sim : Len(sim[c].path) = 1
    /\ \E key \in DOMAIN bnd_ind_sum_master : IsNaN(bnd_ind_sum_master[key][1])
    /\ \E c \in DOMAIN p : IsNaN(p[c])

====
